---- MODULE Spec2Model ----
(***************************************************************************)
(* Model of backend/app.py: a Flask service exposing CRUD operations over  *)
(* the PostgreSQL table items(id SERIAL PRIMARY KEY, name VARCHAR(255) NOT *)
(* NULL, description TEXT), with a retrying connection provider.           *)
(*                                                                         *)
(* Every handler runs one transaction on a connection of its own, so a     *)
(* handler is one atomic action on the committed database state.           *)
(***************************************************************************)
EXTENDS Integers, Sequences, FiniteSets, TLC

(***************************************************************************)
(* Bounds of the model.                                                    *)
(***************************************************************************)
\* the largest id the items_id_seq sequence hands out before inserts stop
MaxId == 2
\* the largest number of connections left open that the model tracks
MaxOpen == 1
\* the number of connection attempts whose outcome the environment fixes
EnvLen == 6

(***************************************************************************)
(* Text values.  A text is a run-length encoded string: a sequence of      *)
(* <<character, count>> runs with count > 0 and no two adjacent runs of    *)
(* the same character.  An optional value (Python None, SQL NULL) is a set *)
(* holding no text or one text.                                            *)
(***************************************************************************)
None == {}
Some(t) == {t}
Val(o) == CHOOSE t \in o : TRUE

Empty == << >>
Foo == << <<"f", 1>>, <<"o", 2>> >>
Doc == << <<"d", 1>> >>
\* "foo" followed by 253 spaces: 256 characters, one more than the column takes
FooPad == << <<"f", 1>>, <<"o", 2>>, <<" ", 253>> >>
\* 256 times "x"
Long == << <<"x", 256>> >>

RECURSIVE TextLen(_)
TextLen(t) == IF t = << >> THEN 0 ELSE Head(t)[2] + TextLen(Tail(t))

\* the first n characters of t
RECURSIVE Take(_, _)
Take(t, n) ==
    IF n <= 0 \/ t = << >> THEN << >>
    ELSE IF Head(t)[2] <= n THEN <<Head(t)>> \o Take(Tail(t), n - Head(t)[2])
    ELSE << <<Head(t)[1], n>> >>

\* the characters of t after the first n
RECURSIVE Drop(_, _)
Drop(t, n) ==
    IF t = << >> THEN << >>
    ELSE IF n <= 0 THEN t
    ELSE IF Head(t)[2] <= n THEN Drop(Tail(t), n - Head(t)[2])
    ELSE << <<Head(t)[1], Head(t)[2] - n>> >> \o Tail(t)

AllSpaces(t) == \A i \in 1..Len(t) : t[i][1] = " "

\* name VARCHAR(255)
VarcharLen == 255

\* What the column type VARCHAR(n) makes of a value assigned to it: the
\* value itself up to n characters; a longer value whose excess characters
\* are all spaces is cut to n characters; any other longer value is the
\* error "value too long for type character varying(n)" (no result).
Varchar(t, n) ==
    IF TextLen(t) <= n THEN Some(t)
    ELSE IF AllSpaces(Drop(t, n)) THEN Some(Take(t, n))
    ELSE None

\* name VARCHAR(255) NOT NULL
NameColumn(t) == Varchar(t, VarcharLen)

\* description TEXT: unbounded, nullable; an optional text is stored as it is
DescriptionColumn(o) == o

(***************************************************************************)
(* get_db_connection.  env[i] is TRUE when the i-th psycopg2.connect of    *)
(* the call succeeds and FALSE when it raises OperationalError.  The       *)
(* result records the events of the call in order: "connect" for an        *)
(* attempt, "sleep" with its seconds for a time.sleep.                     *)
(***************************************************************************)
max_retries == 5
SleepSeconds == 3

ConnectEv == [ev |-> "connect", secs |-> 0]
SleepEv(s) == [ev |-> "sleep", secs |-> s]

RECURSIVE acquire_loop(_, _, _, _)
acquire_loop(env, limit, retries, trace) ==
    IF retries < limit
    THEN LET n == retries + 1
             t == Append(trace, ConnectEv)
         IN  IF n <= Len(env) /\ env[n]
             THEN [ok |-> TRUE, error |-> "", trace |-> t]
             ELSE acquire_loop(env, limit, retries + 1, Append(t, SleepEv(SleepSeconds)))
    ELSE [ok |-> FALSE, error |-> "Failed to connect to database after 5 attempts",
          trace |-> trace]

get_db_connection_off_by_one(env) == acquire_loop(env, max_retries + 1, 0, << >>)

get_db_connection(env) == acquire_loop(env, max_retries, 0, << >>)

Envs == [1..EnvLen -> BOOLEAN]
AllOk == [i \in 1..EnvLen |-> TRUE]
AllFail == [i \in 1..EnvLen |-> FALSE]


(***************************************************************************)
(* State.                                                                  *)
(***************************************************************************)
VARIABLES
    pc,         \* "starting" while the module is imported, then "serving" (or "exited")
    initOk,     \* what init_db returned: "pending", "true" or "false"
    db,         \* the committed database: [exists, rows, seq]
    openConns,  \* connections that were opened and not closed
    last,       \* the response of the last request handled
    acqIn,      \* the connection outcomes given to a lone get_db_connection call
    acqOut      \* the result of that call, once made

vars == <<pc, initOk, db, openConns, last, acqIn, acqOut>>

(***************************************************************************)
(* The database.  rows maps the ids present to [name, description];  seq   *)
(* is the next value of the SERIAL column's sequence.  A dropped table has *)
(* no rows, and its sequence is dropped with it.                           *)
(***************************************************************************)
NoRows == [i \in {} |-> [name |-> Empty, description |-> None]]
NoTable == [exists |-> FALSE, rows |-> NoRows, seq |-> 1]
EmptyTable == [exists |-> TRUE, rows |-> NoRows, seq |-> 1]

\* a row as RealDictCursor returns it
Item(d, id) == [id |-> id, name |-> d.rows[id].name, description |-> d.rows[id].description]

Put(rows, id, r) == [i \in DOMAIN rows \cup {id} |-> IF i = id THEN r ELSE rows[i]]
Remove(rows, id) == [i \in DOMAIN rows \ {id} |-> rows[i]]

\* ids in ascending order (ORDER BY id)
RECURSIVE Ascending(_)
Ascending(S) ==
    IF S = {} THEN << >>
    ELSE LET m == CHOOSE x \in S : \A y \in S : x <= y
         IN  <<m>> \o Ascending(S \ {m})

NoRelation == "relation \"items\" does not exist"
TooLong == "value too long for type character varying(255)"
Lost == "server closed the connection unexpectedly"

\* The statements.  Each gives [ok, error, db, hit]: db is the state inside
\* the transaction after the statement, hit the rows it returns or counts.

\* CREATE TABLE IF NOT EXISTS items (...)
SqlCreateIfNotExists(d) ==
    [ok |-> TRUE, error |-> "", hit |-> {}, db |-> IF d.exists THEN d ELSE EmptyTable]

\* SELECT 1
SqlSelectOne(d) == [ok |-> TRUE, error |-> "", hit |-> {}, db |-> d]

\* SELECT * FROM items ORDER BY id
SqlSelectAll(d) ==
    IF ~d.exists THEN [ok |-> FALSE, error |-> NoRelation, hit |-> {}, db |-> d]
    ELSE [ok |-> TRUE, error |-> "", hit |-> DOMAIN d.rows, db |-> d]

\* INSERT INTO items (name, description) VALUES (%s, %s) RETURNING id, name, description
SqlInsert(d, name, description) ==
    IF ~d.exists THEN [ok |-> FALSE, error |-> NoRelation, hit |-> {}, db |-> d]
    ELSE IF NameColumn(name) = None
    THEN [ok |-> FALSE, error |-> TooLong, hit |-> {}, db |-> d]
    ELSE [ok |-> TRUE, error |-> "", hit |-> {d.seq},
          db |-> [d EXCEPT !.rows = Put(d.rows, d.seq,
                                        [name |-> Val(NameColumn(name)),
                                         description |-> DescriptionColumn(description)]),
                           !.seq = d.seq + 1]]

\* SELECT * FROM items WHERE id = %s
SqlSelectById(d, id) ==
    IF ~d.exists THEN [ok |-> FALSE, error |-> NoRelation, hit |-> {}, db |-> d]
    ELSE [ok |-> TRUE, error |-> "", hit |-> DOMAIN d.rows \cap {id}, db |-> d]

\* UPDATE items SET name = %s, description = %s WHERE id = %s RETURNING *
\* with both clauses whatever the request supplies
SqlUpdate_overwrite(d, name, description, id) ==
    IF ~d.exists THEN [ok |-> FALSE, error |-> NoRelation, hit |-> {}, db |-> d]
    ELSE IF name # None /\ NameColumn(Val(name)) = None
    THEN [ok |-> FALSE, error |-> TooLong, hit |-> {}, db |-> d]
    ELSE IF id \notin DOMAIN d.rows
    THEN [ok |-> TRUE, error |-> "", hit |-> {}, db |-> d]
    ELSE [ok |-> TRUE, error |-> "", hit |-> {id},
          db |-> [d EXCEPT !.rows[id] =
                     [name |-> IF name # None THEN Val(NameColumn(Val(name))) ELSE Empty,
                      description |-> DescriptionColumn(description)]]]

\* UPDATE items SET [name = %s][, ][description = %s] WHERE id = %s RETURNING *
\* name and description are optional: None for a clause that is not in the statement
SqlUpdate(d, name, description, id) ==
    IF ~d.exists THEN [ok |-> FALSE, error |-> NoRelation, hit |-> {}, db |-> d]
    ELSE IF name # None /\ NameColumn(Val(name)) = None
    THEN [ok |-> FALSE, error |-> TooLong, hit |-> {}, db |-> d]
    ELSE IF id \notin DOMAIN d.rows
    THEN [ok |-> TRUE, error |-> "", hit |-> {}, db |-> d]
    ELSE [ok |-> TRUE, error |-> "", hit |-> {id},
          db |-> [d EXCEPT !.rows[id] =
                     [name |-> IF name # None THEN Val(NameColumn(Val(name))) ELSE @.name,
                      description |-> IF description # None
                                      THEN DescriptionColumn(description)
                                      ELSE @.description]]]

\* DELETE FROM items
SqlDelete_no_where(d, id) ==
    IF ~d.exists THEN [ok |-> FALSE, error |-> NoRelation, hit |-> {}, db |-> d]
    ELSE [ok |-> TRUE, error |-> "", hit |-> DOMAIN d.rows,
          db |-> [d EXCEPT !.rows = NoRows]]

\* DELETE FROM items WHERE id = %s
SqlDelete(d, id) ==
    IF ~d.exists THEN [ok |-> FALSE, error |-> NoRelation, hit |-> {}, db |-> d]
    ELSE [ok |-> TRUE, error |-> "", hit |-> DOMAIN d.rows \cap {id},
          db |-> [d EXCEPT !.rows = Remove(d.rows, id)]]

\* DROP TABLE IF EXISTS items
SqlDropIfExists(d) == [ok |-> TRUE, error |-> "", hit |-> {}, db |-> NoTable]

\* CREATE TABLE items (...)
SqlCreate(d) ==
    IF d.exists
    THEN [ok |-> FALSE, error |-> "relation \"items\" already exists", hit |-> {}, db |-> d]
    ELSE [ok |-> TRUE, error |-> "", hit |-> {}, db |-> EmptyTable]

\* A transaction that ends without its commit is rolled back when its
\* connection goes away.  Values drawn from a sequence are not given back.
Rollback(before, tx) ==
    IF before.exists /\ tx.exists /\ tx.seq > before.seq
    THEN [before EXCEPT !.seq = tx.seq]
    ELSE before


(***************************************************************************)
(* Request bodies.  kind is "none" (no JSON body: no body at all, or a     *)
(* body that is not declared as JSON), "malformed" (declared as JSON, not  *)
(* parsable), "array" (JSON that is not an object, such as [1]) or         *)
(* "object"; keys are the keys of an object, name and description their    *)
(* values (None for JSON null and for a key that is not there).            *)
(***************************************************************************)
Body(kind, keys, name, description) ==
    [kind |-> kind, keys |-> keys, name |-> name, description |-> description]

NoBody == Body("none", {}, None, None)
Malformed == Body("malformed", {}, None, None)
Array == Body("array", {}, None, None)
OnlyName(n) == Body("object", {"name"}, Some(n), None)
OnlyDescription(o) == Body("object", {"description"}, None, o)
Both(n, o) == Body("object", {"name", "description"}, Some(n), o)

NameVals == {Empty, Foo, FooPad, Long}
DescVals == {None, Some(Empty), Some(Doc)}

\* the request bodies the handlers are run against
Bodies ==
    {NoBody, Malformed, Array, Body("object", {}, None, None)}
    \cup {OnlyName(n) : n \in NameVals}
    \cup {OnlyDescription(o) : o \in DescVals}
    \cup {Both(Foo, Some(Doc)), Both(FooPad, Some(Empty))}

\* request.get_json().  A malformed JSON body raises BadRequest.  A body that
\* is not declared as JSON gives None in the Flask releases where get_json
\* is silent about the content type, and raises UnsupportedMediaType in the
\* others.  data is the parsed body (NoBody for None).
get_json(body, silent) ==
    IF body.kind = "malformed"
    THEN [raises |-> TRUE, error |-> "400 Bad Request", data |-> NoBody]
    ELSE IF body.kind = "none" /\ ~silent
    THEN [raises |-> TRUE, error |-> "415 Unsupported Media Type", data |-> NoBody]
    ELSE [raises |-> FALSE, error |-> "", data |-> body]

\* the truth value of the parsed body ("if not data")
Truthy(data) == data.kind = "array" \/ (data.kind = "object" /\ data.keys # {})

\* data.get(key) where the handler passes a default
Get_no_default(data, key, default) ==
    IF key \notin data.keys THEN None
    ELSE IF key = "name" THEN data.name ELSE data.description

\* data.get(key, default)
Get(data, key, default) ==
    IF key \notin data.keys THEN default
    ELSE IF key = "name" THEN data.name ELSE data.description

\* "if not name"
Falsy(o) == o = None \/ o = Some(Empty)

(***************************************************************************)
(* Handlers.  Each is a function of the committed database and the         *)
(* request, giving [resp, db, open]: the response, the committed database  *)
(* afterwards, and the number of connections the call opened and did not   *)
(* close.  fault names the step of the transaction at which the server or  *)
(* the network fails: "none", "execute" (the first statement), "create"    *)
(* (the second statement of reset) or "commit".                            *)
(***************************************************************************)
Resp(op, status, item, items, error) ==
    [op |-> op, status |-> status, item |-> item, items |-> items, error |-> error]

Result(resp, d, open) == [resp |-> resp, db |-> d, open |-> open]

\* the except clause of a handler: the error string with status 500
Caught(op, error, d, open) == Result(Resp(op, 500, {}, << >>, error), d, open)

\* lines 29-48
init_db(d, env, fault) ==
    LET conn == get_db_connection(env)
        st == SqlCreateIfNotExists(d)
    IN  IF ~conn.ok THEN [ok |-> FALSE, db |-> d, open |-> 0]
        ELSE IF fault = "execute" \/ ~st.ok THEN [ok |-> FALSE, db |-> d, open |-> 1]
        ELSE IF fault = "commit" THEN [ok |-> FALSE, db |-> Rollback(d, st.db), open |-> 1]
        ELSE [ok |-> TRUE, db |-> st.db, open |-> 0]

\* lines 54-61
index == Resp("index", 200, {}, << >>, "")

\* lines 63-83
health(d, env, fault) ==
    LET conn == get_db_connection(env)
        st == SqlSelectOne(d)
    IN  IF ~conn.ok THEN Caught("health", conn.error, d, 0)
        ELSE IF fault = "execute" THEN Caught("health", Lost, d, 1)
        ELSE Result(Resp("health", 200, {}, << >>, ""), d, 0)

\* lines 85-96
get_items(d, env, fault) ==
    LET conn == get_db_connection(env)
        st == SqlSelectAll(d)
    IN  IF ~conn.ok THEN Caught("get_items", conn.error, d, 0)
        ELSE IF fault = "execute" THEN Caught("get_items", Lost, d, 1)
        ELSE IF ~st.ok THEN Caught("get_items", st.error, d, 1)
        ELSE Result(Resp("get_items", 200, {},
                         [i \in 1..Cardinality(st.hit) |-> Item(d, Ascending(st.hit)[i])],
                         ""), d, 0)

\* lines 98-123
create_item(d, body, silent, env, fault) ==
    LET j == get_json(body, silent)
        data == j.data
        name == Get(data, "name", None)
        description == Get(data, "description", Some(Empty))
        conn == get_db_connection(env)
        st == SqlInsert(d, Val(name), description)
    IN  IF j.raises THEN Caught("create_item", j.error, d, 0)
        ELSE IF ~Truthy(data)
        THEN Result(Resp("create_item", 400, {}, << >>, "Request must contain JSON"), d, 0)
        ELSE IF data.kind # "object"
        THEN Caught("create_item", "'list' object has no attribute 'get'", d, 0)
        ELSE IF Falsy(name)
        THEN Result(Resp("create_item", 400, {}, << >>, "Item name is required"), d, 0)
        ELSE IF ~conn.ok THEN Caught("create_item", conn.error, d, 0)
        ELSE IF fault = "execute" THEN Caught("create_item", Lost, d, 1)
        ELSE IF ~st.ok THEN Caught("create_item", st.error, Rollback(d, st.db), 1)
        ELSE IF fault = "commit" THEN Caught("create_item", Lost, Rollback(d, st.db), 1)
        ELSE Result(Resp("create_item", 201, {Item(st.db, i) : i \in st.hit}, << >>, ""),
                    st.db, 0)

\* lines 125-138
get_item(d, id, env, fault) ==
    LET conn == get_db_connection(env)
        st == SqlSelectById(d, id)
    IN  IF ~conn.ok THEN Caught("get_item", conn.error, d, 0)
        ELSE IF fault = "execute" THEN Caught("get_item", Lost, d, 1)
        ELSE IF ~st.ok THEN Caught("get_item", st.error, d, 1)
        ELSE IF st.hit # {}
        THEN Result(Resp("get_item", 200, {Item(d, i) : i \in st.hit}, << >>, ""), d, 0)
        ELSE Result(Resp("get_item", 404, {}, << >>, "Item not found"), d, 0)

\* lines 140-178
update_item(d, id, body, silent, env, fault) ==
    LET j == get_json(body, silent)
        data == j.data
        name == Get(data, "name", None)
        description == Get(data, "description", None)
        conn == get_db_connection(env)
        st == SqlUpdate(d, name, description, id)
    IN  IF j.raises THEN Caught("update_item", j.error, d, 0)
        ELSE IF ~Truthy(data)
        THEN Result(Resp("update_item", 400, {}, << >>, "Request must contain JSON"), d, 0)
        ELSE IF data.kind # "object"
        THEN Caught("update_item", "'list' object has no attribute 'get'", d, 0)
        ELSE IF name = None /\ description = None
        THEN Result(Resp("update_item", 400, {}, << >>,
                         "At least one field to update is required"), d, 0)
        ELSE IF ~conn.ok THEN Caught("update_item", conn.error, d, 0)
        ELSE IF fault = "execute" THEN Caught("update_item", Lost, d, 1)
        ELSE IF ~st.ok THEN Caught("update_item", st.error, Rollback(d, st.db), 1)
        ELSE IF fault = "commit" THEN Caught("update_item", Lost, Rollback(d, st.db), 1)
        ELSE IF st.hit # {}
        THEN Result(Resp("update_item", 200, {Item(st.db, i) : i \in st.hit}, << >>, ""),
                    st.db, 0)
        ELSE Result(Resp("update_item", 404, {}, << >>, "Item not found"), st.db, 0)

\* lines 180-195
delete_item(d, id, env, fault) ==
    LET conn == get_db_connection(env)
        st == SqlDelete(d, id)
    IN  IF ~conn.ok THEN Caught("delete_item", conn.error, d, 0)
        ELSE IF fault = "execute" THEN Caught("delete_item", Lost, d, 1)
        ELSE IF ~st.ok THEN Caught("delete_item", st.error, Rollback(d, st.db), 1)
        ELSE IF fault = "commit" THEN Caught("delete_item", Lost, Rollback(d, st.db), 1)
        ELSE IF Cardinality(st.hit) > 0
        THEN Result(Resp("delete_item", 200, {}, << >>, ""), st.db, 0)
        ELSE Result(Resp("delete_item", 404, {}, << >>, "Item not found"), st.db, 0)

\* reset with CREATE TABLE IF NOT EXISTS and no DROP
reset_database_keeps_rows(d, env, fault) ==
    LET conn == get_db_connection(env)
        st == SqlCreateIfNotExists(d)
    IN  IF ~conn.ok THEN Caught("reset_database", conn.error, d, 0)
        ELSE IF fault \in {"execute", "create"} THEN Caught("reset_database", Lost, d, 1)
        ELSE IF fault = "commit" THEN Caught("reset_database", Lost, Rollback(d, st.db), 1)
        ELSE Result(Resp("reset_database", 200, {}, << >>, ""), st.db, 0)

\* reset on a connection in autocommit mode: the DROP is committed on its own
reset_database_autocommit(d, env, fault) ==
    LET conn == get_db_connection(env)
        st1 == SqlDropIfExists(d)
        st2 == SqlCreate(st1.db)
    IN  IF ~conn.ok THEN Caught("reset_database", conn.error, d, 0)
        ELSE IF fault = "execute" THEN Caught("reset_database", Lost, d, 1)
        ELSE IF fault = "create" THEN Caught("reset_database", Lost, st1.db, 1)
        ELSE IF ~st2.ok THEN Caught("reset_database", st2.error, st1.db, 1)
        ELSE Result(Resp("reset_database", 200, {}, << >>, ""), st2.db, 0)

\* lines 197-216: both statements run in the one transaction that the
\* commit of line 211 ends
reset_database(d, env, fault) ==
    LET conn == get_db_connection(env)
        st1 == SqlDropIfExists(d)
        st2 == SqlCreate(st1.db)
    IN  IF ~conn.ok THEN Caught("reset_database", conn.error, d, 0)
        ELSE IF fault = "execute" THEN Caught("reset_database", Lost, d, 1)
        ELSE IF ~st1.ok THEN Caught("reset_database", st1.error, Rollback(d, st1.db), 1)
        ELSE IF fault = "create" THEN Caught("reset_database", Lost, Rollback(d, st1.db), 1)
        ELSE IF ~st2.ok THEN Caught("reset_database", st2.error, Rollback(d, st2.db), 1)
        ELSE IF fault = "commit" THEN Caught("reset_database", Lost, Rollback(d, st2.db), 1)
        ELSE Result(Resp("reset_database", 200, {}, << >>, ""), st2.db, 0)


(***************************************************************************)
(* The process.                                                            *)
(***************************************************************************)
\* what the state keeps of a response: everything but the text of its
\* message or error
Observed(resp) ==
    [op |-> resp.op, status |-> resp.status, item |-> resp.item, items |-> resp.items]

NoResp == Observed(Resp("none", 0, {}, << >>, ""))

Ids == 1..(MaxId + 1)
\* where a request fails: nowhere, at every connection attempt, or at a step
\* of its transaction
Faults == {"none", "connect", "execute", "commit"}
ResetFaults == {"none", "connect", "execute", "create", "commit"}
ReadFaults == {"none", "connect", "execute"}
Env(fault) == IF fault = "connect" THEN AllFail ELSE AllOk

\* the silent flag matters for a body that is not declared as JSON only
Silents(body) == IF body.kind = "none" THEN BOOLEAN ELSE {FALSE}

\* the requests with a body the handlers are run against: every body without
\* a failure, and two bodies with every failure
BodyRequests ==
    {<<b, "none">> : b \in Bodies}
    \cup {<<b, f>> : b \in {OnlyName(Foo), Both(Foo, Some(Doc))}, f \in Faults}

Init ==
    /\ pc = "starting"
    /\ initOk = "pending"
    /\ db \in {NoTable, EmptyTable}
    /\ openConns = 0
    /\ last = NoResp
    /\ acqIn = AllOk
    /\ acqOut = {}

\* A connection that a call opened and did not close stays open until the
\* interpreter finalizes the unreferenced connection object: at once when
\* the call returns (reference counting) or at some later collection.
Unclosed(open) == {0, open}

after_init_fatal(ok) == IF ok THEN "serving" ELSE "exited"

\* line 52 drops what init_db returns; lines 218-220 then start the server
after_init(ok) == "serving"

\* the import of the module: init_db, then the server starts
StartupWith(fault) ==
    /\ pc = "starting"
    /\ LET r == init_db(db, Env(fault), fault)
       IN  /\ pc' = after_init(r.ok)
           /\ initOk' = IF r.ok THEN "true" ELSE "false"
           /\ db' = r.db
           /\ \E o \in Unclosed(r.open) :
                /\ openConns + o <= MaxOpen
                /\ openConns' = openConns + o
    /\ UNCHANGED <<last, acqIn, acqOut>>

Startup == \E fault \in Faults : StartupWith(fault)

\* one request handled from its arrival to its response
Handle(result) ==
    LET r == result
    IN  /\ pc = "serving"
        /\ r.db.seq <= MaxId + 1
        /\ db' = r.db
        /\ last' = Observed(r.resp)
        /\ \E o \in Unclosed(r.open) :
             /\ openConns + o <= MaxOpen
             /\ openConns' = openConns + o
        /\ UNCHANGED <<pc, initOk, acqIn, acqOut>>

Index == Handle(Result(index, db, 0))

Health == \E fault \in ReadFaults : Handle(health(db, Env(fault), fault))

GetItems == \E fault \in ReadFaults : Handle(get_items(db, Env(fault), fault))

CreateStep(body, silent, fault) ==
    Handle(create_item(db, body, silent, Env(fault), fault))

CreateItem ==
    \E rq \in BodyRequests : \E silent \in Silents(rq[1]) : CreateStep(rq[1], silent, rq[2])

GetItem ==
    \E id \in Ids, fault \in ReadFaults :
      Handle(get_item(db, id, Env(fault), fault))

UpdateStep(id, body, silent, fault) ==
    Handle(update_item(db, id, body, silent, Env(fault), fault))

UpdateItem ==
    \E id \in Ids, rq \in BodyRequests :
      \E silent \in Silents(rq[1]) : UpdateStep(id, rq[1], silent, rq[2])

DeleteStep(id, fault) == Handle(delete_item(db, id, Env(fault), fault))

DeleteItem == \E id \in Ids, fault \in Faults : DeleteStep(id, fault)

ResetDatabase ==
    \E fault \in ResetFaults : Handle(reset_database(db, Env(fault), fault))

\* the interpreter finalizes the connection objects that nothing refers to
Finalize ==
    /\ openConns > 0
    /\ openConns' = 0
    /\ UNCHANGED <<pc, initOk, db, last, acqIn, acqOut>>

Next ==
    \/ Startup
    \/ Index
    \/ Health
    \/ GetItems
    \/ CreateItem
    \/ GetItem
    \/ UpdateItem
    \/ DeleteItem
    \/ ResetDatabase
    \/ Finalize

Spec == Init /\ [][Next]_vars

(***************************************************************************)
(* A lone call of get_db_connection against every sequence of connection   *)
(* outcomes.                                                               *)
(***************************************************************************)
InitAcquire ==
    /\ pc = "starting"
    /\ initOk = "pending"
    /\ db = NoTable
    /\ openConns = 0
    /\ last = NoResp
    /\ acqIn \in Envs
    /\ acqOut = {}

Acquire ==
    /\ acqOut = {}
    /\ acqOut' = {get_db_connection(acqIn)}
    /\ UNCHANGED <<pc, initOk, db, openConns, last, acqIn>>

NextAcquire == Acquire

SpecAcquire == InitAcquire /\ [][NextAcquire]_vars


(***************************************************************************)
(* Properties.                                                             *)
(***************************************************************************)
\* the response of a GET /items/{id} made against database d with no failure
GetAfter(d, id) == Observed(get_item(d, id, AllOk, "none").resp)

\* the response of a GET /items made against database d with no failure
ListAfter(d) == Observed(get_items(d, AllOk, "none").resp)

\* the step leaves every row but row id as it was, and adds or removes none
OthersUnchanged(id) ==
    /\ DOMAIN db'.rows = DOMAIN db.rows
    /\ \A i \in DOMAIN db.rows \ {id} : db'.rows[i] = db.rows[i]

\* C1, as the claim states it: a POST /items whose body supplies only a
\* non-empty name n and that is answered 201 returns the item with name n,
\* an empty description and a new positive id, and a GET /items/{id} made
\* next returns the same record.
C1_RoundTripVerbatim ==
    [][\A n \in NameVals \ {Empty} :
         (last'.op = "create_item" /\ last'.status = 201
            /\ CreateStep(OnlyName(n), FALSE, "none"))
         => \E it \in last'.item :
              /\ last'.item = {it}
              /\ it.id > 0 /\ it.id \notin DOMAIN db.rows
              /\ it.name = n
              /\ it.description = Some(Empty)
              /\ GetAfter(db', it.id) = Observed(Resp("get_item", 200, {it}, << >>, ""))]_vars

\* C1, amended: a POST /items whose body supplies only a non-empty name n
\* and that is answered 201 returns the item with the name the VARCHAR(255)
\* column keeps for n (n itself up to 255 characters, otherwise its first 255
\* characters, what was cut being spaces), an empty description and a new
\* positive id, and a GET /items/{id} made next returns the same record.
C1_RoundTrip ==
    [][\A n \in NameVals \ {Empty} :
         (last'.op = "create_item" /\ last'.status = 201
            /\ CreateStep(OnlyName(n), FALSE, "none"))
         => \E it \in last'.item :
              /\ last'.item = {it}
              /\ it.id > 0 /\ it.id \notin DOMAIN db.rows
              /\ it.name = (IF TextLen(n) <= VarcharLen THEN n ELSE Take(n, VarcharLen))
              /\ TextLen(n) > VarcharLen => AllSpaces(Drop(n, VarcharLen))
              /\ it.description = Some(Empty)
              /\ GetAfter(db', it.id) = Observed(Resp("get_item", 200, {it}, << >>, ""))]_vars

\* C1 witness: a name of 256 characters ending in spaces was created and is
\* stored with 255 characters and an empty description.
C1_Witness ==
    /\ last.op = "create_item" /\ last.status = 201
    /\ \E it \in last.item :
         /\ it.name = Take(FooPad, VarcharLen)
         /\ it.description = Some(Empty)
         /\ it.id \in DOMAIN db.rows

\* C2: a POST /items whose body is missing or is not JSON is answered 400,
\* and no item is created.
C2_NotJsonIs400 ==
    [][\A body \in {NoBody, Malformed} : \A silent \in Silents(body) :
         CreateStep(body, silent, "none") => (last'.status = 400 /\ db' = db)]_vars

\* a PUT on an existing item that supplies one field the table takes, with
\* no failure, is answered 200
C3_Answered200 ==
    \A id \in DOMAIN db.rows :
      /\ \A o \in DescVals \ {None} :
           update_item(db, id, OnlyDescription(o), FALSE, AllOk, "none").resp.status = 200
      /\ \A n \in {m \in NameVals : NameColumn(m) # None} :
           update_item(db, id, OnlyName(n), FALSE, AllOk, "none").resp.status = 200

\* C3: a PUT /items/{id} on an existing item that supplies only description
\* is answered 200, sets the description, and leaves the name and the id; one
\* that supplies only a name the column takes is answered 200, sets the name
\* (to what the column keeps of it), and leaves the description and the id;
\* both leave every other item as it was and answer with the full updated row.
C3_PartialUpdate ==
    /\ [](pc = "serving" => C3_Answered200)
    /\ [][(last'.op = "update_item" /\ last'.status = 200) =>
          \A id \in DOMAIN db.rows :
            /\ \A o \in DescVals \ {None} :
                 UpdateStep(id, OnlyDescription(o), FALSE, "none")
                 => /\ OthersUnchanged(id)
                    /\ db'.rows[id].name = db.rows[id].name
                    /\ db'.rows[id].description = o
                    /\ last'.item = {[id |-> id, name |-> db.rows[id].name,
                                      description |-> o]}
            /\ \A n \in {m \in NameVals : NameColumn(m) # None} :
                 UpdateStep(id, OnlyName(n), FALSE, "none")
                 => /\ OthersUnchanged(id)
                    /\ db'.rows[id].name = Val(NameColumn(n))
                    /\ db'.rows[id].description = db.rows[id].description
                    /\ last'.item = {[id |-> id, name |-> Val(NameColumn(n)),
                                      description |-> db.rows[id].description]}]_vars

\* C3 witness: an update was answered 200 with a row that has a description
\* while another item is in the table.
C3_Witness ==
    /\ last.op = "update_item" /\ last.status = 200
    /\ \E it \in last.item : it.description = Some(Doc) /\ it.name = Foo
    /\ Cardinality(DOMAIN db.rows) > 1

\* C4: with the table there and no failure, DELETE /items/{id} for an id not
\* in the table is answered 404 and changes nothing; for an id in the table
\* it is answered 200 and removes that item and no other, and a GET
\* /items/{id} made afterwards is answered 404.
C4_Delete ==
    [][\A id \in Ids :
         (last'.op = "delete_item" /\ db.exists /\ DeleteStep(id, "none"))
         => IF id \in DOMAIN db.rows
            THEN /\ last'.status = 200
                 /\ DOMAIN db'.rows = DOMAIN db.rows \ {id}
                 /\ \A i \in DOMAIN db'.rows : db'.rows[i] = db.rows[i]
                 /\ GetAfter(db', id).status = 404
            ELSE /\ last'.status = 404
                 /\ db' = db]_vars

\* C4 witness: a delete was answered 200 and another item is still there.
C4_Witness ==
    /\ last.op = "delete_item" /\ last.status = 200
    /\ db.rows # NoRows

\* C5: after a POST /reset answered 200 the items table exists and is empty,
\* and a GET /items made next is answered 200 with the empty list.
C5_Reset ==
    (last.op = "reset_database" /\ last.status = 200)
    => /\ db.exists
       /\ db.rows = NoRows
       /\ ListAfter(db) = Observed(Resp("get_items", 200, {}, << >>, ""))

\* C5 witness: a reset was answered 200.
C5_Witness == last.op = "reset_database" /\ last.status = 200 /\ db.exists


\* the number of connection attempts in the events of a call
Attempts(trace) == Cardinality({k \in 1..Len(trace) : trace[k].ev = "connect"})

\* the attempt at which the outcomes given first succeed, among the first 5
FirstOk(env) == {i \in 1..5 : env[i] /\ \A j \in 1..(i - 1) : ~env[j]}

\* C6: a call of get_db_connection ends; it makes at most 5 attempts; it
\* returns the connection of the first attempt that succeeds and makes no
\* attempt after it; when the 5 attempts fail it raises; and between two
\* consecutive attempts it sleeps 3 seconds.
C6_Acquire ==
    /\ acqOut = {} => ENABLED Acquire
    /\ \A r \in acqOut :
         /\ Attempts(r.trace) <= 5
         /\ r.ok => FirstOk(acqIn) = {Attempts(r.trace)}
         /\ ~r.ok <=> FirstOk(acqIn) = {}
         /\ ~r.ok => Attempts(r.trace) = 5
         /\ \A k \in 1..Len(r.trace) :
              (r.trace[k].ev = "connect"
                 /\ \E m \in (k + 1)..Len(r.trace) : r.trace[m].ev = "connect")
              => /\ r.trace[k + 1] = [ev |-> "sleep", secs |-> 3]
                 /\ r.trace[k + 2].ev = "connect"

\* C6 witness: a call made 5 attempts, all failed, and it raised.
C6_Witness == \E r \in acqOut : ~r.ok /\ Attempts(r.trace) = 5 /\ ~acqIn[5]

C8_AllClosed == openConns = 0

\* C9: every stored item has a non-empty name.
C9_NamesNonEmpty == \A id \in DOMAIN db.rows : db.rows[id].name # Empty

\* C10: a request answered 400, 404 or 500 leaves the stored items, and the
\* table itself, as they were.
C10_ErrorsChangeNothing ==
    [][last'.status \in {400, 404, 500}
       => (db'.exists = db.exists /\ db'.rows = db.rows)]_vars

\* C10 witness: a reset was answered 500 and the items are still there.
C10_Witness ==
    /\ last.op = "reset_database" /\ last.status = 500
    /\ db.exists /\ db.rows # NoRows

====
